---- MODULE Spec2Model ----
(***************************************************************************)
(* Model of the zff header/footer codec: ChunkHeader, CompressionHeader,   *)
(* SegmentHeader, EncryptionHeader (with key unwrap) and MainFooter.       *)
(*                                                                         *)
(* Integers wider than TLC's are kept as limbs of 16 bits, most            *)
(* significant limb first: a u64 is a tuple of 4 limbs, a u32 a tuple of   *)
(* 2 limbs.  An i64 is held as the 4 limbs of its two's complement bit     *)
(* pattern.  Byte vectors are sequences over 0..255.                       *)
(***************************************************************************)
EXTENDS Integers, Sequences, FiniteSets, TLC

VARIABLES
    overflow_checks, \* build profile: TRUE = arithmetic overflow panics, FALSE = it wraps
    pc,              \* "running", or "panicked" after an overflow panic
    chunk,           \* the ChunkHeader being written
    chunk_start,     \* history: chunk_number the header was constructed with
    advances,        \* history: number of completed next_number calls
    segments,        \* the chain of SegmentHeaders (each derived with next_header)
    out              \* record of the last operation: its name, inputs and result

vars == <<overflow_checks, pc, chunk, chunk_start, advances, segments, out>>

-----------------------------------------------------------------------------
(* Bounds of the model *)

MaxAdvances == 3

MaxSegments == 3

-----------------------------------------------------------------------------
(* Fixed-width integers as limbs *)

Limb == 256 * 256

Byte == 0..255

\* a small natural as u64 / u32 (the "as u64" casts of lengths)
U64FromNat(n) == <<0, 0, n \div Limb, n % Limb>>

U32FromNat(n) == <<n \div Limb, n % Limb>>

U64Max == <<Limb - 1, Limb - 1, Limb - 1, Limb - 1>>

\* exact sum of a u64 and a small natural: 5 limbs, the first is the carry out
AddLimbs(a, n) ==
    LET s4 == a[4] + n
        s3 == a[3] + (s4 \div Limb)
        s2 == a[2] + (s3 \div Limb)
        s1 == a[1] + (s2 \div Limb)
    IN  <<s1 \div Limb, s1 % Limb, s2 % Limb, s3 % Limb, s4 % Limb>>

\* a < b on u64 limbs
U64Less(a, b) ==
    \E i \in 1..4 : a[i] < b[i] /\ \A j \in 1..(i - 1) : a[j] = b[j]

\* one limb as two bytes, low byte first / high byte first
LimbLe(l) == <<l % 256, l \div 256>>

LimbBe(l) == <<l \div 256, l % 256>>

\* u64::to_le_bytes, u32::to_be_bytes
U64ToLeBytes(v) == LimbLe(v[4]) \o LimbLe(v[3]) \o LimbLe(v[2]) \o LimbLe(v[1])

U32ToBeBytes(v) == LimbBe(v[1]) \o LimbBe(v[2])

U32ToLeBytes(v) == LimbLe(v[2]) \o LimbLe(v[1])

\* u64::from_le_bytes, u32::from_le_bytes
U64FromLeBytes(b) ==
    <<b[8] * 256 + b[7], b[6] * 256 + b[5], b[4] * 256 + b[3], b[2] * 256 + b[1]>>

U32FromLeBytes(b) == <<b[4] * 256 + b[3], b[2] * 256 + b[1]>>

-----------------------------------------------------------------------------
(* Value codec (ValueEncoder / ValueDecoder of the primitive types) *)

u8_encode_directly(v) == <<v>>

u32_encode_directly(v) == U32ToLeBytes(v)

u64_encode_directly(v) == U64ToLeBytes(v)

i64_encode_directly(v) == U64ToLeBytes(v)

\* [u8; N]: the raw bytes, no length prefix
array_encode_directly(a) == a

\* Vec<u8>: 4-byte little-endian length prefix, then the bytes
vec_encode_directly(v) == U32ToLeBytes(U32FromNat(Len(v))) \o v

\* A decoder reads from a cursor: [data, pos] with pos the number of bytes
\* consumed.  A read returns [ok, val, cur]; a short read fails (ok = FALSE)
\* and nothing is returned.
Cursor_new(data) == [data |-> data, pos |-> 0]

read_exact(cur, n) ==
    IF cur.pos + n <= Len(cur.data)
    THEN [ok |-> TRUE,
          val |-> SubSeq(cur.data, cur.pos + 1, cur.pos + n),
          cur |-> [cur EXCEPT !.pos = cur.pos + n]]
    ELSE [ok |-> FALSE, val |-> <<>>, cur |-> cur]

u8_decode_directly(cur) ==
    LET r == read_exact(cur, 1)
    IN  IF r.ok THEN [r EXCEPT !.val = r.val[1]] ELSE r

u32_decode_directly(cur) ==
    LET r == read_exact(cur, 4)
    IN  IF r.ok THEN [r EXCEPT !.val = U32FromLeBytes(r.val)] ELSE r

u64_decode_directly(cur) ==
    LET r == read_exact(cur, 8)
    IN  IF r.ok THEN [r EXCEPT !.val = U64FromLeBytes(r.val)] ELSE r

i64_decode_directly(cur) == u64_decode_directly(cur)

\* HeaderEncoder::encode_key: one length byte, then the key's bytes
encode_key(key) == <<Len(key)>> \o key

\* ValueType::Object.as_raw_value()
ValueType_Object_as_raw_value == 7

-----------------------------------------------------------------------------
(* Constants *)

HEADER_IDENTIFIER_CHUNK_HEADER == 2053531203

HEADER_IDENTIFIER_COMPRESSION_HEADER == 2053531235

\* "cn", "no" as UTF-8
ENCODING_KEY_CASE_NUMBER == <<99, 110>>

ENCODING_KEY_NOTES == <<110, 111>>

\* a key of another length: "cnno"
LongKey == ENCODING_KEY_CASE_NUMBER \o ENCODING_KEY_NOTES

SIGNATURE_LENGTH == 64

None == <<>>

Some(x) == <<x>>

-----------------------------------------------------------------------------
(* ChunkHeader *)

ChunkHeader_new(header_version, chunk_number, chunk_size, crc32, ed25519_signature) ==
    [header_version |-> header_version,
     chunk_number |-> chunk_number,
     chunk_size |-> chunk_size,
     crc32 |-> crc32,
     ed25519_signature |-> ed25519_signature]

ChunkHeader_identifier == U32FromNat(HEADER_IDENTIFIER_CHUNK_HEADER)

ChunkHeader_encode_header(self) ==
    <<self.header_version>>
        \o u64_encode_directly(self.chunk_number)
        \o u64_encode_directly(self.chunk_size)
        \o u32_encode_directly(self.crc32)
        \o (IF self.ed25519_signature = None
            THEN <<>>
            ELSE array_encode_directly(self.ed25519_signature[1]))

ChunkHeader_encode_directly_body_only(self) ==
    LET encoded_header == ChunkHeader_encode_header(self)
    IN  U32ToBeBytes(ChunkHeader_identifier)
            \o U64ToLeBytes(U64FromNat(Len(encoded_header)))
            \o encoded_header

ChunkHeader_encode_directly(self) ==
    LET encoded_header == ChunkHeader_encode_header(self)
        encoded_header_length == U64FromNat(4 + 8 + Len(encoded_header))
    IN  U32ToBeBytes(ChunkHeader_identifier)
            \o U64ToLeBytes(encoded_header_length)
            \o encoded_header

ChunkHeader_encode_for_key(self, key) ==
    encode_key(key) \o ChunkHeader_encode_directly(self)

-----------------------------------------------------------------------------
(* CompressionHeader *)

CompressionAlgorithms == {"None", "Zstd"}

CompressionAlgorithm_get_value_swapped(a) ==
    CASE a = "None" -> 1
      [] a = "Zstd" -> 0

CompressionAlgorithm_get_value(a) ==
    CASE a = "None" -> 0
      [] a = "Zstd" -> 1

CompressionHeader_new(header_version, compression_algo, compression_level) ==
    [header_version |-> header_version,
     compression_algorithm |-> compression_algo,
     compression_level |-> compression_level]

CompressionHeader_identifier == U32FromNat(HEADER_IDENTIFIER_COMPRESSION_HEADER)

CompressionHeader_encode_header(self) ==
    <<self.header_version,
      CompressionAlgorithm_get_value(self.compression_algorithm),
      self.compression_level>>

CompressionHeader_encode_directly(self) ==
    LET encoded_header == CompressionHeader_encode_header(self)
        encoded_header_length == U64FromNat(Len(encoded_header))
    IN  U32ToBeBytes(CompressionHeader_identifier)
            \o U64ToLeBytes(encoded_header_length)
            \o encoded_header

CompressionHeader_encode_for_key(self, key) ==
    encode_key(key)
        \o <<ValueType_Object_as_raw_value>>
        \o CompressionHeader_encode_directly(self)

-----------------------------------------------------------------------------
(* Inputs *)

HeaderVersions == {1, 2}

\* chunk numbers a writer starts from: 0, 1, the last value of the low limb,
\* and two values within MaxAdvances of the 64-bit maximum
StartNumbers ==
    {U64FromNat(0), U64FromNat(1), U64FromNat(Limb - 1),
     <<Limb - 1, Limb - 1, Limb - 1, Limb - 2>>, U64Max}

ChunkSizes == {U64FromNat(0), U64FromNat(32768), U64Max}

Crc32s == {U32FromNat(0), <<57005, 48879>>}

Signatures == {None, Some([i \in 1..SIGNATURE_LENGTH |-> 171])}

Keys == {ENCODING_KEY_CASE_NUMBER, LongKey}

CompressionLevels == {0, 5, 255}

InitSegments == <<>>

-----------------------------------------------------------------------------
(* Operations on the ChunkHeader *)

Running == pc = "running"

set_chunk_size(size) ==
    /\ Running
    /\ chunk' = [chunk EXCEPT !.chunk_size = size]
    /\ out' = [op |-> "set_chunk_size", before |-> chunk]
    /\ UNCHANGED <<overflow_checks, pc, chunk_start, advances, segments>>

set_crc32(crc32) ==
    /\ Running
    /\ chunk' = [chunk EXCEPT !.crc32 = crc32]
    /\ out' = [op |-> "set_crc32", before |-> chunk]
    /\ UNCHANGED <<overflow_checks, pc, chunk_start, advances, segments>>

set_signature(signature) ==
    /\ Running
    /\ chunk' = [chunk EXCEPT !.ed25519_signature = signature]
    /\ out' = [op |-> "set_signature", before |-> chunk]
    /\ UNCHANGED <<overflow_checks, pc, chunk_start, advances, segments>>

next_number_resetting(self, sum) ==
    [self EXCEPT !.chunk_number = Tail(sum),
                 !.chunk_size = U64FromNat(0),
                 !.crc32 = U32FromNat(0),
                 !.ed25519_signature = None]

\* the header after self.chunk_number += 1 when the addition does not overflow
\* (or wraps): only chunk_number is assigned
next_number_assign(self, sum) ==
    [self EXCEPT !.chunk_number = Tail(sum)]

\* self.chunk_number += 1: on overflow a build with overflow checks panics
\* before the assignment, a build without them stores the wrapped value
next_number ==
    /\ Running
    /\ advances < MaxAdvances
    /\ LET sum == AddLimbs(chunk.chunk_number, 1)
       IN  IF sum[1] # 0 /\ overflow_checks
           THEN /\ pc' = "panicked"
                /\ out' = [op |-> "next_number_panic", before |-> chunk]
                /\ UNCHANGED <<chunk, advances>>
           ELSE /\ chunk' = next_number_assign(chunk, sum)
                /\ advances' = advances + 1
                /\ out' = [op |-> "next_number", before |-> chunk]
                /\ UNCHANGED pc
    /\ UNCHANGED <<overflow_checks, chunk_start, segments>>

ChunkEncodeDirectly ==
    /\ Running
    /\ out' = [op |-> "ChunkHeader::encode_directly",
               self |-> chunk,
               bytes |-> ChunkHeader_encode_directly(chunk)]
    /\ UNCHANGED <<overflow_checks, pc, chunk, chunk_start, advances, segments>>

ChunkEncodeForKey(key) ==
    /\ Running
    /\ out' = [op |-> "ChunkHeader::encode_for_key",
               key |-> key,
               direct |-> ChunkHeader_encode_directly(chunk),
               bytes |-> ChunkHeader_encode_for_key(chunk, key)]
    /\ UNCHANGED <<overflow_checks, pc, chunk, chunk_start, advances, segments>>

(* Operations on a CompressionHeader (immutable once constructed) *)

CompressionEncodeDirectly(self) ==
    /\ Running
    /\ out' = [op |-> "CompressionHeader::encode_directly",
               self |-> self,
               bytes |-> CompressionHeader_encode_directly(self)]
    /\ UNCHANGED <<overflow_checks, pc, chunk, chunk_start, advances, segments>>

CompressionEncodeForKey(self, key) ==
    /\ Running
    /\ out' = [op |-> "CompressionHeader::encode_for_key",
               key |-> key,
               direct |-> CompressionHeader_encode_directly(self),
               bytes |-> CompressionHeader_encode_for_key(self, key)]
    /\ UNCHANGED <<overflow_checks, pc, chunk, chunk_start, advances, segments>>

CompressionHeaders ==
    {CompressionHeader_new(v, a, l) :
        v \in HeaderVersions, a \in CompressionAlgorithms, l \in CompressionLevels}

-----------------------------------------------------------------------------
(* Specification of the chunk writer: one ChunkHeader, patched and advanced, *)
(* and the encoders applied to it and to CompressionHeaders                  *)

Init ==
    /\ overflow_checks \in BOOLEAN
    /\ pc = "running"
    /\ \E v \in HeaderVersions, k \in StartNumbers :
          /\ chunk = ChunkHeader_new(v, k, U64FromNat(0), U32FromNat(0), None)
          /\ chunk_start = k
    /\ advances = 0
    /\ segments = InitSegments
    /\ out = [op |-> "new"]

Next ==
    \/ \E size \in ChunkSizes : set_chunk_size(size)
    \/ \E crc32 \in Crc32s : set_crc32(crc32)
    \/ \E signature \in Signatures : set_signature(signature)
    \/ next_number
    \/ ChunkEncodeDirectly
    \/ \E key \in Keys : ChunkEncodeForKey(key)
    \/ \E self \in CompressionHeaders : CompressionEncodeDirectly(self)
    \/ \E self \in CompressionHeaders, key \in Keys : CompressionEncodeForKey(self, key)

Spec == Init /\ [][Next]_vars

-----------------------------------------------------------------------------
(* Results of the fallible operations: Ok(val), or Err with the error kind *)
(* (ZffError) and, for a header decode error, its message                   *)

Ok(val) == [ok |-> TRUE, val |-> val]

Err(kind, msg) == [ok |-> FALSE, kind |-> kind, msg |-> msg]

\* a short read of the cursor (std::io::ErrorKind::UnexpectedEof)
IoError == Err("IoError", "UnexpectedEof")

ERROR_HEADER_DECODER_UNKNOWN_ENCRYPTION_ALGORITHM == "Unknown encryption algorithm value."

ERROR_HEADER_DECODER_UNKNOWN_PBE_SCHEME == "Unknown PBEncryption scheme value."

ERROR_HEADER_DECODER_UNKNOWN_KDF_SCHEME == "Unknown KDF scheme value."

ERROR_HEADER_DECODER_MISMATCH_IDENTIFIER ==
    "The read identifier does not match the header identifier."

HEADER_IDENTIFIER_SEGMENT_HEADER == 2053531251

HEADER_IDENTIFIER_PBE_HEADER == 2053531248

HEADER_IDENTIFIER_ENCRYPTION_HEADER == 2053531237

FOOTER_IDENTIFIER_MAIN_FOOTER == 2053531213

\* the provided encode_directly of HeaderEncoder / HeaderCoding: identifier
\* big-endian, the length of the body as u64 little-endian, the body
Header_encode_directly(identifier, encoded_header) ==
    U32ToBeBytes(U32FromNat(identifier))
        \o U64ToLeBytes(U64FromNat(Len(encoded_header)))
        \o encoded_header

-----------------------------------------------------------------------------
(* SegmentHeader *)

SegmentHeader_new(header_version, unique_identifier, segment_number, length_of_segment) ==
    [header_version |-> header_version,
     unique_identifier |-> unique_identifier,
     segment_number |-> segment_number,
     length_of_segment |-> length_of_segment]

\* the header next_header builds, given self.segment_number+1 (5 limbs)
SegmentHeader_next_header(self, sum) ==
    [header_version |-> self.header_version,
     unique_identifier |-> self.unique_identifier,
     segment_number |-> Tail(sum),
     length_of_segment |-> U64FromNat(0)]

SegmentHeader_encode_header(self) ==
    u8_encode_directly(self.header_version)
        \o i64_encode_directly(self.unique_identifier)
        \o u64_encode_directly(self.segment_number)
        \o u64_encode_directly(self.length_of_segment)

SegmentHeader_encode_directly(self) ==
    Header_encode_directly(HEADER_IDENTIFIER_SEGMENT_HEADER, SegmentHeader_encode_header(self))

SegmentHeader_decode_content(data) ==
    LET header_version == u8_decode_directly(Cursor_new(data))
        unique_identifier == i64_decode_directly(header_version.cur)
        segment_number == u64_decode_directly(unique_identifier.cur)
        length == u64_decode_directly(segment_number.cur)
    IN  IF header_version.ok /\ unique_identifier.ok /\ segment_number.ok /\ length.ok
        THEN Ok(SegmentHeader_new(header_version.val, unique_identifier.val,
                                  segment_number.val, length.val))
        ELSE IoError

\* the equality #[derive(PartialEq)] would give
SegmentHeader_eq_all_fields(self, other) == self = other

\* impl PartialEq for SegmentHeader
SegmentHeader_eq(self, other) == self.segment_number = other.segment_number

-----------------------------------------------------------------------------
(* MainFooter *)

MainFooter_new(version, number_of_segments, number_of_objects, footer_offset) ==
    [version |-> version,
     number_of_segments |-> number_of_segments,
     number_of_objects |-> number_of_objects,
     footer_offset |-> footer_offset]

MainFooter_encode_header(self) ==
    u8_encode_directly(self.version)
        \o u64_encode_directly(self.number_of_segments)
        \o u64_encode_directly(self.number_of_objects)
        \o u64_encode_directly(self.footer_offset)

MainFooter_encode_directly(self) ==
    Header_encode_directly(FOOTER_IDENTIFIER_MAIN_FOOTER, MainFooter_encode_header(self))

MainFooter_decode_content_swapped(data) ==
    LET footer_version == u8_decode_directly(Cursor_new(data))
        number_of_segments == u64_decode_directly(footer_version.cur)
        number_of_objects == u64_decode_directly(number_of_segments.cur)
        footer_offset == u64_decode_directly(number_of_objects.cur)
    IN  IF footer_version.ok /\ number_of_segments.ok /\ number_of_objects.ok
           /\ footer_offset.ok
        THEN Ok(MainFooter_new(footer_version.val, number_of_objects.val,
                               number_of_segments.val, footer_offset.val))
        ELSE IoError

MainFooter_decode_content(data) ==
    LET footer_version == u8_decode_directly(Cursor_new(data))
        number_of_segments == u64_decode_directly(footer_version.cur)
        number_of_objects == u64_decode_directly(number_of_segments.cur)
        footer_offset == u64_decode_directly(number_of_objects.cur)
    IN  IF footer_version.ok /\ number_of_segments.ok /\ number_of_objects.ok
           /\ footer_offset.ok
        THEN Ok(MainFooter_new(footer_version.val, number_of_segments.val,
                               number_of_objects.val, footer_offset.val))
        ELSE IoError

-----------------------------------------------------------------------------
(* PBEHeader: the password-based-encryption descriptor nested in the        *)
(* EncryptionHeader                                                         *)

KDFSchemes == {"PBKDF2SHA256"}

PBESchemes == {"AES128CBC", "AES256CBC"}

KDFScheme_as_u8(s) == CASE s = "PBKDF2SHA256" -> 0

PBEScheme_as_u8(s) ==
    CASE s = "AES128CBC" -> 0
      [] s = "AES256CBC" -> 1

\* kdf_parameters: PBKDF2SHA256Parameters [iterations, salt (32 bytes)]
PBEHeader_new(header_version, kdf_scheme, encryption_scheme, kdf_parameters, pbencryption_nonce) ==
    [header_version |-> header_version,
     kdf_scheme |-> kdf_scheme,
     encryption_scheme |-> encryption_scheme,
     kdf_parameters |-> kdf_parameters,
     pbencryption_nonce |-> pbencryption_nonce]

PBEHeader_encode_header(self) ==
    <<self.header_version, KDFScheme_as_u8(self.kdf_scheme),
      PBEScheme_as_u8(self.encryption_scheme)>>
        \o u32_encode_directly(U32FromNat(self.kdf_parameters.iterations))
        \o array_encode_directly(self.kdf_parameters.salt)
        \o array_encode_directly(self.pbencryption_nonce)

PBEHeader_encode_directly(self) ==
    Header_encode_directly(HEADER_IDENTIFIER_PBE_HEADER, PBEHeader_encode_header(self))

\* reads fields of the given widths one after the other; a short read fails
RECURSIVE read_fields(_, _)
read_fields(cur, widths) ==
    IF widths = <<>>
    THEN [ok |-> TRUE, val |-> <<>>, cur |-> cur]
    ELSE LET r == read_exact(cur, Head(widths))
         IN  IF ~r.ok
             THEN r
             ELSE LET rest == read_fields(r.cur, Tail(widths))
                  IN  IF ~rest.ok
                      THEN rest
                      ELSE [rest EXCEPT !.val = <<r.val>> \o rest.val]

PBEHeader_decode_content(data) ==
    LET f == read_fields(Cursor_new(data), <<1, 1, 1, 4, 32, 16>>)
    IN  IF ~f.ok THEN IoError
        ELSE IF f.val[2][1] # 0
        THEN Err("HeaderDecodeError", ERROR_HEADER_DECODER_UNKNOWN_KDF_SCHEME)
        ELSE IF f.val[3][1] \notin {0, 1}
        THEN Err("HeaderDecodeError", ERROR_HEADER_DECODER_UNKNOWN_PBE_SCHEME)
        ELSE Ok(PBEHeader_new(
                f.val[1][1],
                "PBKDF2SHA256",
                IF f.val[3][1] = 0 THEN "AES128CBC" ELSE "AES256CBC",
                [iterations |-> U32FromLeBytes(f.val[4])[1] * Limb
                                    + U32FromLeBytes(f.val[4])[2],
                 salt |-> f.val[5]],
                f.val[6]))

\* the body of an enveloped PBEHeader, once identifier and length are read
PBEHeader_decode_body(body) ==
    IF ~body.ok
    THEN IoError
    ELSE LET content == PBEHeader_decode_content(body.val)
         IN  IF ~content.ok
             THEN content
             ELSE [ok |-> TRUE, val |-> content.val, cur |-> body.cur]

\* reads one enveloped PBEHeader from the cursor: [ok, val, cur] or an error
PBEHeader_decode_directly(cur) ==
    LET f == read_fields(cur, <<4, 8>>)
    IN  IF ~f.ok THEN IoError
        ELSE IF f.val[1] # U32ToBeBytes(U32FromNat(HEADER_IDENTIFIER_PBE_HEADER))
        THEN Err("HeaderDecodeError", ERROR_HEADER_DECODER_MISMATCH_IDENTIFIER)
        ELSE IF SubSeq(f.val[2], 3, 8) # <<0, 0, 0, 0, 0, 0>>
        THEN IoError
        ELSE PBEHeader_decode_body(read_exact(f.cur, f.val[2][2] * 256 + f.val[2][1]))

-----------------------------------------------------------------------------
(* Encryption: the key unwrap primitives.  PBKDF2-HMAC-SHA256 and AES-CBC    *)
(* are stood in for by a keyed byte substitution with PKCS#7 padding: the    *)
(* right key-encryption key gives back the wrapped bytes, another one gives  *)
(* a padding failure or other bytes.                                         *)

AES_BLOCK_SIZE == 16

RECURSIVE SumBytes(_)
SumBytes(b) == IF b = <<>> THEN 0 ELSE b[1] + SumBytes(Tail(b))

\* the key-encryption key derived from the password (one byte stands for it)
pbkdf2_sha256(password, salt, iterations, dklen) ==
    (SumBytes(password) * 5 + SumBytes(salt) + iterations + dklen) % 256

pkcs7_pad(plaintext) ==
    LET p == AES_BLOCK_SIZE - (Len(plaintext) % AES_BLOCK_SIZE)
    IN  plaintext \o [i \in 1..p |-> p]

cbc_encrypt(kek, iv, plaintext) ==
    LET padded == pkcs7_pad(plaintext)
    IN  [i \in 1..Len(padded) |-> (padded[i] + kek + iv[1]) % 256]

\* Ok(plaintext), or the cipher's padding error
cbc_decrypt(kek, iv, message) ==
    LET n == Len(message)
        padded == [i \in 1..n |-> (message[i] + 512 - kek - iv[1]) % 256]
        p == IF n = 0 THEN 0 ELSE padded[n]
    IN  IF n = 0 \/ n % AES_BLOCK_SIZE # 0 \/ p < 1 \/ p > AES_BLOCK_SIZE
        THEN Err("PBEError", "unpad")
        ELSE IF \E i \in (n - p + 1)..n : padded[i] # p
        THEN Err("PBEError", "unpad")
        ELSE Ok(SubSeq(padded, 1, n - p))

Encryption_encrypt_pbkdf2sha256_aes128cbc(iterations, salt, nonce, password, plaintext) ==
    cbc_encrypt(pbkdf2_sha256(password, salt, iterations, 16), nonce, plaintext)

Encryption_encrypt_pbkdf2sha256_aes256cbc(iterations, salt, nonce, password, plaintext) ==
    cbc_encrypt(pbkdf2_sha256(password, salt, iterations, 32), nonce, plaintext)

Encryption_decrypt_pbkdf2sha256_aes128cbc(iterations, salt, nonce, password, message) ==
    cbc_decrypt(pbkdf2_sha256(password, salt, iterations, 16), nonce, message)

Encryption_decrypt_pbkdf2sha256_aes256cbc(iterations, salt, nonce, password, message) ==
    cbc_decrypt(pbkdf2_sha256(password, salt, iterations, 32), nonce, message)

-----------------------------------------------------------------------------
(* EncryptionHeader *)

EncryptionAlgorithms == {"AES128GCMSIV", "AES256GCMSIV"}

\* self.algorithm.clone() as u8
EncryptionAlgorithm_as_u8(a) ==
    CASE a = "AES128GCMSIV" -> 0
      [] a = "AES256GCMSIV" -> 1

\* the key length in bytes the payload cipher needs
EncryptionAlgorithm_key_length(a) ==
    CASE a = "AES128GCMSIV" -> 16
      [] a = "AES256GCMSIV" -> 32

EncryptionHeader_new(header_version, pbe_header, algorithm, encrypted_encryption_key, encrypted_header_nonce) ==
    [header_version |-> header_version,
     pbe_header |-> pbe_header,
     algorithm |-> algorithm,
     encrypted_encryption_key |-> encrypted_encryption_key,
     encrypted_header_nonce |-> encrypted_header_nonce]

EncryptionHeader_decrypt_encryption_key(self, password) ==
    CASE self.pbe_header.kdf_scheme = "PBKDF2SHA256" ->
        LET iterations == self.pbe_header.kdf_parameters.iterations
            salt == self.pbe_header.kdf_parameters.salt
        IN  CASE self.pbe_header.encryption_scheme = "AES128CBC" ->
                    Encryption_decrypt_pbkdf2sha256_aes128cbc(
                        iterations, salt, self.pbe_header.pbencryption_nonce,
                        password, self.encrypted_encryption_key)
              [] self.pbe_header.encryption_scheme = "AES256CBC" ->
                    Encryption_decrypt_pbkdf2sha256_aes256cbc(
                        iterations, salt, self.pbe_header.pbencryption_nonce,
                        password, self.encrypted_encryption_key)

EncryptionHeader_encode_header(self) ==
    <<self.header_version>>
        \o PBEHeader_encode_directly(self.pbe_header)
        \o <<EncryptionAlgorithm_as_u8(self.algorithm)>>
        \o vec_encode_directly(self.encrypted_encryption_key)
        \o array_encode_directly(self.encrypted_header_nonce)

EncryptionHeader_encode_directly(self) ==
    Header_encode_directly(HEADER_IDENTIFIER_ENCRYPTION_HEADER,
                           EncryptionHeader_encode_header(self))

\* decode_content, from its last read to its first: each step is one
\* `?`-terminated read of the function, handed what was decoded before it

\* cursor.read_exact(&mut nonce)?; Ok(EncryptionHeader::new(..))
EncryptionHeader_decode_nonce(header_version, pbe_header, encryption_algorithm, encryption_key, cur) ==
    LET nonce == read_exact(cur, 12)
    IN  IF ~nonce.ok
        THEN IoError
        ELSE Ok(EncryptionHeader_new(header_version, pbe_header, encryption_algorithm,
                                     encryption_key, nonce.val))

\* let mut encryption_key = vec![0u8; key_length]; cursor.read_exact(..)?
EncryptionHeader_decode_key(header_version, pbe_header, encryption_algorithm, key_length, cur) ==
    LET encryption_key == read_exact(cur, key_length)
    IN  IF ~encryption_key.ok
        THEN IoError
        ELSE EncryptionHeader_decode_nonce(header_version, pbe_header,
                                           encryption_algorithm, encryption_key.val,
                                           encryption_key.cur)

\* let key_length = u32::decode_directly(&mut cursor)? as usize
\* (a declared length above 65535 exceeds every buffer of this model, so
\*  the read of the key is short: Limb stands for such a length)
EncryptionHeader_decode_key_length_u64(header_version, pbe_header, encryption_algorithm, cur) ==
    LET r == u64_decode_directly(cur)
    IN  IF ~r.ok
        THEN IoError
        ELSE EncryptionHeader_decode_key(
                 header_version, pbe_header, encryption_algorithm,
                 IF r.val[1] = 0 /\ r.val[2] = 0 /\ r.val[3] = 0 THEN r.val[4] ELSE Limb,
                 r.cur)

EncryptionHeader_decode_key_length(header_version, pbe_header, encryption_algorithm, cur) ==
    LET r == u32_decode_directly(cur)
    IN  IF ~r.ok
        THEN IoError
        ELSE EncryptionHeader_decode_key(
                 header_version, pbe_header, encryption_algorithm,
                 IF r.val[1] = 0 THEN r.val[2] ELSE Limb,
                 r.cur)

\* the match on the algorithm byte
EncryptionAlgorithm_from_u8_defaulting(code) ==
    CASE code = 0 -> Ok("AES128GCMSIV")
      [] OTHER -> Ok("AES256GCMSIV")

EncryptionAlgorithm_from_u8(code) ==
    CASE code = 0 -> Ok("AES128GCMSIV")
      [] code = 1 -> Ok("AES256GCMSIV")
      [] OTHER -> Err("HeaderDecodeError", ERROR_HEADER_DECODER_UNKNOWN_ENCRYPTION_ALGORITHM)

\* let encryption_algorithm = match u8::decode_directly(&mut cursor)? {..}
EncryptionHeader_decode_algorithm(header_version, pbe_header, cur) ==
    LET code == u8_decode_directly(cur)
    IN  IF ~code.ok
        THEN IoError
        ELSE LET encryption_algorithm == EncryptionAlgorithm_from_u8(code.val)
             IN  IF ~encryption_algorithm.ok
                 THEN encryption_algorithm
                 ELSE EncryptionHeader_decode_key_length(
                          header_version, pbe_header, encryption_algorithm.val, code.cur)

\* let pbe_header = PBEHeader::decode_directly(&mut cursor)?
EncryptionHeader_decode_pbe_header(header_version, cur) ==
    LET pbe_header == PBEHeader_decode_directly(cur)
    IN  IF ~pbe_header.ok
        THEN pbe_header
        ELSE EncryptionHeader_decode_algorithm(header_version, pbe_header.val,
                                               pbe_header.cur)

EncryptionHeader_decode_content(data) ==
    LET header_version == u8_decode_directly(Cursor_new(data))
    IN  IF ~header_version.ok
        THEN IoError
        ELSE EncryptionHeader_decode_pbe_header(header_version.val, header_version.cur)

-----------------------------------------------------------------------------
(* Inputs of the segment writer and of the codecs *)

\* i64 identifiers 5 and -1
UniqueIdentifiers == {U64FromNat(5), U64Max}

SegmentStartNumbers ==
    {U64FromNat(1), U64FromNat(Limb - 1), <<Limb - 1, Limb - 1, Limb - 1, Limb - 2>>,
     U64Max}

SegmentLengths == {U64FromNat(4096), <<0, 1, 0, 0>>}

\* headers a SegmentHeader of the chain is compared with
OtherSegmentHeaders ==
    {SegmentHeader_new(v, uid, n, len) :
        v \in HeaderVersions, uid \in UniqueIdentifiers,
        n \in {U64FromNat(1), U64FromNat(2), U64FromNat(Limb)},
        len \in {U64FromNat(0), U64FromNat(4096)}}

MainFooters ==
    {MainFooter_new(v, s, o, off) :
        v \in HeaderVersions,
        s \in {U64FromNat(3), <<1, 2, 3, 4>>},
        o \in {U64FromNat(10), U64FromNat(3)},
        off \in {U64FromNat(4096), U64Max}}

Passwords == {<<112, 119>>, <<112, 120>>}

PBEHeaders ==
    {PBEHeader_new(1, "PBKDF2SHA256", scheme,
                   [iterations |-> 1000, salt |-> [i \in 1..32 |-> 200 + i]],
                   [i \in 1..16 |-> 3 * i]) :
        scheme \in PBESchemes}

\* data-encryption keys of 16 and 32 bytes
DataKeys == {[i \in 1..16 |-> 17], [i \in 1..32 |-> 34]}

\* EncryptionHeader writers wrap the data-encryption key under the password
WrapKey(pbe_header, password, key) ==
    IF pbe_header.encryption_scheme = "AES128CBC"
    THEN Encryption_encrypt_pbkdf2sha256_aes128cbc(
             pbe_header.kdf_parameters.iterations, pbe_header.kdf_parameters.salt,
             pbe_header.pbencryption_nonce, password, key)
    ELSE Encryption_encrypt_pbkdf2sha256_aes256cbc(
             pbe_header.kdf_parameters.iterations, pbe_header.kdf_parameters.salt,
             pbe_header.pbencryption_nonce, password, key)

HeaderNonce == [i \in 1..12 |-> 100 + i]

\* encrypted keys of length 0, 3, 32 and 48
EncryptedKeys(pbe_header) ==
    {<<>>, <<1, 2, 3>>} \cup {WrapKey(pbe_header, <<112, 119>>, k) : k \in DataKeys}

EncryptionHeaders ==
    {EncryptionHeader_new(v, p, a, k, HeaderNonce) :
        v \in {2}, p \in PBEHeaders, a \in EncryptionAlgorithms,
        k \in UNION {EncryptedKeys(q) : q \in PBEHeaders}}

\* algorithm bytes a body to decode may carry
AlgorithmCodes == {0, 1, 2, 255}

\* lengths a body is cut to: inside each field of the EncryptionHeader
TruncatedLengths == {0, 1, 30, 68, 70, 80}

\* headers the codec is applied to
SegmentHeaders ==
    {SegmentHeader_new(v, uid, n, len) :
        v \in HeaderVersions, uid \in UniqueIdentifiers,
        n \in SegmentStartNumbers,
        len \in SegmentLengths \cup {U64FromNat(0)}}

-----------------------------------------------------------------------------
(* Operations of the segment writer *)

CurrentSegment == segments[Len(segments)]

PinnedChunk == <<overflow_checks, chunk, chunk_start, advances>>

set_length_of_segment(value) ==
    /\ Running
    /\ segments' = [segments EXCEPT ![Len(segments)].length_of_segment = value]
    /\ out' = [op |-> "set_length_of_segment", before |-> CurrentSegment]
    /\ UNCHANGED <<pc, PinnedChunk>>

\* self.segment_number+1 overflows like chunk_number += 1: a panic with
\* overflow checks, the wrapped value without
next_header ==
    /\ Running
    /\ Len(segments) < MaxSegments
    /\ LET sum == AddLimbs(CurrentSegment.segment_number, 1)
       IN  IF sum[1] # 0 /\ overflow_checks
           THEN /\ pc' = "panicked"
                /\ out' = [op |-> "next_header_panic", self |-> CurrentSegment]
                /\ UNCHANGED segments
           ELSE /\ segments' = Append(segments, SegmentHeader_next_header(CurrentSegment, sum))
                /\ out' = [op |-> "next_header",
                           self |-> CurrentSegment,
                           result |-> SegmentHeader_next_header(CurrentSegment, sum)]
                /\ UNCHANGED pc
    /\ UNCHANGED PinnedChunk

SegmentCompare(other) ==
    /\ Running
    /\ out' = [op |-> "SegmentHeader::eq",
               self |-> CurrentSegment,
               other |-> other,
               result |-> SegmentHeader_eq(CurrentSegment, other)]
    /\ UNCHANGED <<pc, segments, PinnedChunk>>

SegmentRoundTrip(self) ==
    /\ Running
    /\ out' = [op |-> "SegmentHeader::decode_content",
               self |-> self,
               bytes |-> SegmentHeader_encode_directly(self),
               result |-> SegmentHeader_decode_content(SegmentHeader_encode_header(self))]
    /\ UNCHANGED <<pc, segments, PinnedChunk>>

(* Operations on MainFooters and EncryptionHeaders *)

MainFooterRoundTrip(self) ==
    /\ Running
    /\ out' = [op |-> "MainFooter::decode_content",
               self |-> self,
               bytes |-> MainFooter_encode_directly(self),
               result |-> MainFooter_decode_content(MainFooter_encode_header(self))]
    /\ UNCHANGED <<pc, segments, PinnedChunk>>

EncryptionRoundTrip(self) ==
    /\ Running
    /\ out' = [op |-> "EncryptionHeader::decode_content",
               self |-> self,
               bytes |-> EncryptionHeader_encode_directly(self),
               result |-> EncryptionHeader_decode_content(
                              EncryptionHeader_encode_header(self))]
    /\ UNCHANGED <<pc, segments, PinnedChunk>>

\* position of the algorithm byte in an EncryptionHeader body
AlgorithmByteAt(self) == 1 + Len(PBEHeader_encode_directly(self.pbe_header)) + 1

\* decode_content of a body that carries the algorithm byte `code`
EncryptionDecodeCode(self, code) ==
    /\ Running
    /\ LET data == [EncryptionHeader_encode_header(self) EXCEPT ![AlgorithmByteAt(self)] = code]
       IN  out' = [op |-> "EncryptionHeader::decode_content(code)",
                   self |-> self,
                   code |-> code,
                   data |-> data,
                   result |-> EncryptionHeader_decode_content(data)]
    /\ UNCHANGED <<pc, segments, PinnedChunk>>

\* decode_content of a body cut short after n bytes
EncryptionDecodeTruncated(self, n) ==
    /\ Running
    /\ LET data == SubSeq(EncryptionHeader_encode_header(self), 1, n)
       IN  out' = [op |-> "EncryptionHeader::decode_content(truncated)",
                   self |-> self,
                   data |-> data,
                   result |-> EncryptionHeader_decode_content(data)]
    /\ UNCHANGED <<pc, segments, PinnedChunk>>

\* decrypt_encryption_key of a header whose key `key` was wrapped under
\* `wrapped_with`, tried with `password`
DecryptEncryptionKey(pbe_header, algorithm, key, wrapped_with, password) ==
    /\ Running
    /\ LET self == EncryptionHeader_new(2, pbe_header, algorithm,
                                        WrapKey(pbe_header, wrapped_with, key), HeaderNonce)
       IN  out' = [op |-> "decrypt_encryption_key",
                   self |-> self,
                   key |-> key,
                   wrapped_with |-> wrapped_with,
                   password |-> password,
                   result |-> EncryptionHeader_decrypt_encryption_key(self, password)]
    /\ UNCHANGED <<pc, segments, PinnedChunk>>

-----------------------------------------------------------------------------
(* Specification of the segment writer: a chain of SegmentHeaders, the last  *)
(* one patched, compared and followed by the header next_header derives      *)

PinnedChunkHeader ==
    /\ chunk = ChunkHeader_new(1, U64FromNat(1), U64FromNat(0), U32FromNat(0), None)
    /\ chunk_start = U64FromNat(1)
    /\ advances = 0

InitSegment ==
    /\ overflow_checks \in BOOLEAN
    /\ pc = "running"
    /\ PinnedChunkHeader
    /\ \E v \in HeaderVersions, uid \in UniqueIdentifiers, n \in SegmentStartNumbers :
          segments = <<SegmentHeader_new(v, uid, n, U64FromNat(0))>>
    /\ out = [op |-> "new"]

NextSegment ==
    \/ \E value \in SegmentLengths : set_length_of_segment(value)
    \/ next_header
    \/ \E other \in OtherSegmentHeaders : SegmentCompare(other)

SpecSegment == InitSegment /\ [][NextSegment]_vars

-----------------------------------------------------------------------------
(* Specification of the codecs: SegmentHeaders, MainFooters and              *)
(* EncryptionHeaders encoded and decoded, and the key unwrap                 *)

InitCodec ==
    /\ overflow_checks \in BOOLEAN
    /\ pc = "running"
    /\ PinnedChunkHeader
    /\ segments = InitSegments
    /\ out = [op |-> "new"]

NextCodec ==
    \/ \E self \in SegmentHeaders : SegmentRoundTrip(self)
    \/ \E self \in MainFooters : MainFooterRoundTrip(self)
    \/ \E self \in EncryptionHeaders : EncryptionRoundTrip(self)
    \/ \E self \in EncryptionHeaders, code \in AlgorithmCodes : EncryptionDecodeCode(self, code)
    \/ \E self \in EncryptionHeaders, n \in TruncatedLengths :
          EncryptionDecodeTruncated(self, n)
    \/ \E p \in PBEHeaders, a \in EncryptionAlgorithms, k \in DataKeys,
          w \in Passwords, password \in Passwords :
          DecryptEncryptionKey(p, a, k, w, password)

SpecCodec == InitCodec /\ [][NextCodec]_vars

-----------------------------------------------------------------------------
(* Specification of the patch operations: one ChunkHeader and one            *)
(* SegmentHeader, their setters applied in any order, the chunk advanced     *)

\* the segment headers a writer opens a segment with
PatchSegments ==
    {SegmentHeader_new(v, uid, U64FromNat(1), U64FromNat(0)) :
        v \in HeaderVersions, uid \in UniqueIdentifiers}

InitPatch ==
    /\ overflow_checks \in BOOLEAN
    /\ pc = "running"
    /\ \E v \in HeaderVersions, k \in StartNumbers :
          /\ chunk = ChunkHeader_new(v, k, U64FromNat(0), U32FromNat(0), None)
          /\ chunk_start = k
    /\ advances = 0
    /\ \E h \in PatchSegments : segments = <<h>>
    /\ out = [op |-> "new"]

NextPatch ==
    \/ \E size \in ChunkSizes : set_chunk_size(size)
    \/ \E crc32 \in Crc32s : set_crc32(crc32)
    \/ \E signature \in Signatures : set_signature(signature)
    \/ next_number
    \/ \E value \in SegmentLengths : set_length_of_segment(value)

SpecPatch == InitPatch /\ [][NextPatch]_vars

-----------------------------------------------------------------------------
(* Properties of the chunk writer *)

PayloadFields(h) == <<h.chunk_size, h.crc32, h.ed25519_signature>>

\* C1 (as stated in the specification): after n advances of a header that
\* started at chunk_number k the number is exactly k+n, and each advance has
\* reset chunk_size, crc32 and the signature to unset (0, 0, None).
C1_AdvanceResetsPayload ==
    out.op = "next_number" =>
        /\ AddLimbs(chunk_start, advances) = <<0>> \o chunk.chunk_number
        /\ PayloadFields(chunk) = <<U64FromNat(0), U32FromNat(0), None>>

\* C1 (amended): after n completed advances chunk_number is (k+n) mod 2^64,
\* which is k+n whenever k+n <= 2^64-1; the sum only passes 2^64-1 in a build
\* without overflow checks (with them the advance at 2^64-1 panics and leaves
\* the header as it was); and an advance leaves chunk_size, crc32 and the
\* signature exactly as they were finalized before it.
C1_AdvanceKeepsPayload ==
    LET w == AddLimbs(chunk_start, advances)
    IN  /\ chunk.chunk_number = Tail(w)
        /\ w[1] # 0 => ~overflow_checks
        /\ out.op = "next_number" =>
              /\ PayloadFields(chunk) = PayloadFields(out.before)
              /\ chunk.header_version = out.before.header_version
        /\ out.op = "next_number_panic" =>
              /\ chunk = out.before
              /\ chunk.chunk_number = U64Max

\* a header finalized with a size, a checksum and a signature, advanced twice
C1_Witness ==
    /\ out.op = "next_number"
    /\ advances = 2
    /\ chunk.chunk_size = U64FromNat(32768)
    /\ chunk.crc32 = <<57005, 48879>>
    /\ chunk.ed25519_signature # None
    /\ chunk.chunk_number = Tail(AddLimbs(chunk_start, 2))

\* C3: ChunkHeader::encode_directly yields the identifier 0x7A666643 big-endian,
\* then the 8-byte little-endian length, which is the body length plus 12 and
\* so the total number of encoded bytes, then the body, which is 21 bytes
\* (version, chunk_number, chunk_size, crc32) without a signature and 85
\* bytes with the 64-byte signature.
C3_ChunkEnvelope ==
    out.op = "ChunkHeader::encode_directly" =>
        LET b == out.bytes
            body == SubSeq(b, 13, Len(b))
            h == out.self
        IN  /\ Len(b) >= 12
            /\ SubSeq(b, 1, 4) = <<122, 102, 102, 67>>
            /\ SubSeq(b, 5, 12) = <<Len(body) + 12, 0, 0, 0, 0, 0, 0, 0>>
            /\ Len(b) = Len(body) + 12
            /\ Len(body) = IF h.ed25519_signature = None THEN 21 ELSE 85
            /\ body[1] = h.header_version
            /\ U64FromLeBytes(SubSeq(body, 2, 9)) = h.chunk_number
            /\ U64FromLeBytes(SubSeq(body, 10, 17)) = h.chunk_size
            /\ U32FromLeBytes(SubSeq(body, 18, 21)) = h.crc32
            /\ h.ed25519_signature # None =>
                  SubSeq(body, 22, 85) = h.ed25519_signature[1]

\* a signed header encoded to 97 bytes with declared length 97
C3_Witness ==
    /\ out.op = "ChunkHeader::encode_directly"
    /\ out.self.ed25519_signature # None
    /\ out.self.chunk_number = U64FromNat(Limb)
    /\ Len(out.bytes) = 97
    /\ out.bytes[5] = 97

\* C4: CompressionHeader::encode_directly yields exactly 15 bytes: the
\* identifier 0x7A666663 big-endian, the 8-byte little-endian length 3 (the
\* body alone), and the body [version, code(algorithm), level] with
\* code(None) = 0 and code(Zstd) = 1.
C4_CompressionEnvelope ==
    out.op = "CompressionHeader::encode_directly" =>
        LET h == out.self
            code == IF h.compression_algorithm = "None" THEN 0 ELSE 1
        IN  out.bytes = <<122, 102, 102, 99, 3, 0, 0, 0, 0, 0, 0, 0,
                          h.header_version, code, h.compression_level>>

\* {version = 1, Zstd, level = 5} encoded with body [1, 1, 5]
C4_Witness ==
    /\ out.op = "CompressionHeader::encode_directly"
    /\ out.self = CompressionHeader_new(1, "Zstd", 5)
    /\ Len(out.bytes) = 15
    /\ SubSeq(out.bytes, 13, 15) = <<1, 1, 5>>

\* C10: for the ChunkHeader as for the CompressionHeader, encode_for_key
\* yields the encoded key, then the one-byte value-kind tag, then exactly the
\* bytes of encode_directly.
C10_KeyedFraming ==
    out.op \in {"ChunkHeader::encode_for_key", "CompressionHeader::encode_for_key"} =>
        /\ Len(out.bytes) = Len(encode_key(out.key)) + 1 + Len(out.direct)
        /\ SubSeq(out.bytes, 1, Len(out.key) + 1) = encode_key(out.key)
        /\ SubSeq(out.bytes, Len(out.key) + 3, Len(out.bytes)) = out.direct

-----------------------------------------------------------------------------
(* Properties of the segment writer *)

\* C2: SegmentHeader equality is decided by segment_number alone: two headers
\* compare equal exactly when their segment_numbers are equal, whatever their
\* header_version, unique_identifier and length_of_segment.
C2_EqualityByNumber ==
    out.op = "SegmentHeader::eq" =>
        (out.result <=> out.self.segment_number = out.other.segment_number)

\* two headers with the same number and every other field different, equal
C2_Witness ==
    /\ out.op = "SegmentHeader::eq"
    /\ out.result
    /\ out.self.header_version # out.other.header_version
    /\ out.self.unique_identifier # out.other.unique_identifier
    /\ out.self.length_of_segment # out.other.length_of_segment

\* C9: for every header h, next_header(h)
\* has h's header_version and unique_identifier, segment_number
\* h.segment_number + 1 and length_of_segment 0, and h is unchanged; along a
\* chain the unique_identifier is constant and segment_number strictly
\* increases by one per step.
C9_NextHeaderIncrements ==
    /\ out.op = "next_header" =>
          /\ out.result.header_version = out.self.header_version
          /\ out.result.unique_identifier = out.self.unique_identifier
          /\ AddLimbs(out.self.segment_number, 1) = <<0>> \o out.result.segment_number
          /\ out.result.length_of_segment = U64FromNat(0)
          /\ segments[Len(segments) - 1] = out.self
    /\ \A i \in 1..(Len(segments) - 1) :
          /\ segments[i + 1].unique_identifier = segments[i].unique_identifier
          /\ U64Less(segments[i].segment_number, segments[i + 1].segment_number)
          /\ AddLimbs(segments[i].segment_number, 1)
                = <<0>> \o segments[i + 1].segment_number

-----------------------------------------------------------------------------
(* Properties of the codecs *)

\* C5: a MainFooter encodes to 37 bytes, 12 envelope bytes and a body of
\* 1 + 8 + 8 + 8 bytes holding version, number_of_segments, number_of_objects
\* and footer_offset in that order, and decode_content of the body returns a
\* footer with the same four fields.
C5_MainFooterRoundTrip ==
    out.op = "MainFooter::decode_content" =>
        /\ Len(out.bytes) = 37
        /\ out.bytes[13] = out.self.version
        /\ U64FromLeBytes(SubSeq(out.bytes, 14, 21)) = out.self.number_of_segments
        /\ U64FromLeBytes(SubSeq(out.bytes, 22, 29)) = out.self.number_of_objects
        /\ U64FromLeBytes(SubSeq(out.bytes, 30, 37)) = out.self.footer_offset
        /\ out.result.ok
        /\ out.result.val.version = out.self.version
        /\ out.result.val.number_of_segments = out.self.number_of_segments
        /\ out.result.val.number_of_objects = out.self.number_of_objects
        /\ out.result.val.footer_offset = out.self.footer_offset

\* {version = 2, segments = 3, objects = 10, footer_offset = 4096} decoded
C5_Witness ==
    /\ out.op = "MainFooter::decode_content"
    /\ out.self = MainFooter_new(2, U64FromNat(3), U64FromNat(10), U64FromNat(4096))
    /\ out.result.ok
    /\ out.result.val.footer_offset = <<0, 0, 0, 4096>>
    /\ SubSeq(out.bytes, 30, 37) = <<0, 16, 0, 0, 0, 0, 0, 0>>

\* C6: for every SegmentHeader and every EncryptionHeader x,
\* decode_content(encode_header(x)) succeeds and every field of the result
\* equals the field of x: header_version, unique_identifier, segment_number
\* and length_of_segment; header_version, the PBE header, the algorithm, the
\* encrypted key (of any length, 0 included) and the 12-byte nonce.
C6_RoundTripFields ==
    /\ out.op = "SegmentHeader::decode_content" =>
          /\ out.result.ok
          /\ out.result.val.header_version = out.self.header_version
          /\ out.result.val.unique_identifier = out.self.unique_identifier
          /\ out.result.val.segment_number = out.self.segment_number
          /\ out.result.val.length_of_segment = out.self.length_of_segment
    /\ out.op = "EncryptionHeader::decode_content" =>
          /\ out.result.ok
          /\ out.result.val.header_version = out.self.header_version
          /\ out.result.val.pbe_header = out.self.pbe_header
          /\ out.result.val.algorithm = out.self.algorithm
          /\ out.result.val.encrypted_encryption_key = out.self.encrypted_encryption_key
          /\ out.result.val.encrypted_header_nonce = out.self.encrypted_header_nonce

\* an EncryptionHeader with an empty encrypted key, decoded from its 85 bytes
C6_Witness ==
    /\ out.op = "EncryptionHeader::decode_content"
    /\ out.self.encrypted_encryption_key = <<>>
    /\ out.self.algorithm = "AES256GCMSIV"
    /\ Len(out.bytes) = 12 + 85
    /\ out.result.ok
    /\ out.result.val.encrypted_header_nonce = HeaderNonce

\* C7: decode_content of an EncryptionHeader body whose algorithm byte is
\* outside {0, 1} returns the header decode error "unknown encryption
\* algorithm" and no header; byte 0 decodes to AES-128-GCM-SIV and byte 1 to
\* AES-256-GCM-SIV.
C7_UnknownAlgorithmRejected ==
    out.op = "EncryptionHeader::decode_content(code)" =>
        /\ out.data[AlgorithmByteAt(out.self)] = out.code
        /\ out.code \notin {0, 1} =>
              /\ ~out.result.ok
              /\ out.result.kind = "HeaderDecodeError"
              /\ out.result.msg = "Unknown encryption algorithm value."
        /\ out.code = 0 => out.result.ok /\ out.result.val.algorithm = "AES128GCMSIV"
        /\ out.code = 1 => out.result.ok /\ out.result.val.algorithm = "AES256GCMSIV"

\* a body with algorithm byte 2, refused
C7_Witness ==
    /\ out.op = "EncryptionHeader::decode_content(code)"
    /\ out.code = 2
    /\ out.data[69] = 2
    /\ ~out.result.ok
    /\ out.result.kind = "HeaderDecodeError"

\* C8: decrypt_encryption_key either fails or returns a key of the length the
\* header's algorithm requires (16 bytes for AES-128-GCM-SIV, 32 for
\* AES-256-GCM-SIV); an incorrect passphrase always fails; and every failure
\* is of one error kind.
C8_UnwrapKeyLength ==
    out.op = "decrypt_encryption_key" =>
        /\ out.result.ok =>
              Len(out.result.val) = EncryptionAlgorithm_key_length(out.self.algorithm)
        /\ out.password # out.wrapped_with => ~out.result.ok
        /\ ~out.result.ok => out.result.kind = "PBEError"

-----------------------------------------------------------------------------
(* Properties of the patch operations *)

\* C11: across any sequence of set_chunk_size, set_crc32, set_signature,
\* next_number and set_length_of_segment, each setter overwrites its own
\* field and leaves every other field unchanged, and chunk_number is changed
\* by next_number alone, by exactly +1, so it never decreases and never
\* takes a value it held before, at the 64-bit maximum as anywhere else.
C11_PatchFrame ==
    /\ out.op = "set_chunk_size" =>
          chunk = [out.before EXCEPT !.chunk_size = chunk.chunk_size]
    /\ out.op = "set_crc32" =>
          chunk = [out.before EXCEPT !.crc32 = chunk.crc32]
    /\ out.op = "set_signature" =>
          chunk = [out.before EXCEPT !.ed25519_signature = chunk.ed25519_signature]
    /\ out.op = "set_length_of_segment" =>
          CurrentSegment
             = [out.before EXCEPT !.length_of_segment = CurrentSegment.length_of_segment]
    /\ out.op = "next_number" =>
          /\ chunk = [out.before EXCEPT !.chunk_number = chunk.chunk_number]
          /\ AddLimbs(out.before.chunk_number, 1) = <<0>> \o chunk.chunk_number
          /\ U64Less(out.before.chunk_number, chunk.chunk_number)
    /\ out.op = "next_number_panic" => chunk = out.before
    /\ AddLimbs(chunk_start, advances) = <<0>> \o chunk.chunk_number
    /\ \A i \in 0..(advances - 1) :
          Tail(AddLimbs(chunk_start, i)) # chunk.chunk_number

====
